---- MODULE Spec2Model ----
(***************************************************************************)
(* Case-insensitive equality, ordering, hashing, case conversion and       *)
(* display of byte sequences that may hold invalid UTF-8 (Insensitive,     *)
(* CasedChunk, CasedChunks, InsensitiveDisplay), and the owned buffer      *)
(* InsensitiveBuf.  Bytes are integers 0..255, byte slices and strings are *)
(* sequences of bytes, a char is its code point.                           *)
(***************************************************************************)
EXTENDS Integers, Sequences, FiniteSets, TLC

VARIABLES pc, a, b, c, r, buf, calls

vars == <<pc, a, b, c, r, buf, calls>>

(***************************************************************************)
(* Bounds of the explored inputs.                                          *)
(***************************************************************************)
\* longest input of the three-operand relations (eq, cmp)
MaxRelLen == 2
\* longest input of the two-operand checks (hash, to_upper against eq)
MaxPairLen == 3
\* longest input of the one-operand operations
MaxLen == 4
\* longest slice handed to InsensitiveBuf
MaxArgLen == 2
\* number of extend calls on one InsensitiveBuf
MaxCalls == 2

\* 'S', 's', and 0xC3, a lead byte that is invalid without its continuation
RelBytes == {83, 115, 195}
\* 'S', 's', and the two bytes of U+00DF (0xC3 0x9F), each of which alone is
\* invalid UTF-8
PairBytes == {83, 115, 195, 159}
\* '\n', 'S', 's', 0xC3, 0x9F, 0xC4, 0xB0, 0xF0, 0xFE
\* (0xC3 0x9F = U+00DF, 0xC3 0xB0 = U+00F0, 0xC4 0x9F = U+011F,
\*  0xC4 0xB0 = U+0130, 0xF0 0x9F 0x9F = a truncated four-byte form,
\*  0xF0 0x9F 0x9F 0x9F = U+1F7DF)
OneBytes == {10, 83, 115, 195, 159, 196, 176, 240, 254}
\* 'a' and 0xFE
BufBytes == {97, 254}

RECURSIVE SeqsUpTo(_, _)
SeqsUpTo(S, n) ==
    IF n = 0 THEN {<<>>}
    ELSE LET shorter == SeqsUpTo(S, n - 1)
         IN  shorter \cup {Append(s, x) : s \in {t \in shorter : Len(t) = n - 1}, x \in S}

RelInputs == SeqsUpTo(RelBytes, MaxRelLen)
PairInputs == SeqsUpTo(PairBytes, MaxPairLen)
OneInputs == SeqsUpTo(OneBytes, MaxLen)
BufInputs == SeqsUpTo(BufBytes, MaxArgLen)

(***************************************************************************)
(* Utf8Chunks: the chunk iterator of the core library that CasedChunks     *)
(* wraps.  Every chunk is a run of valid text followed by the bytes of one *)
(* invalid sequence.                                                       *)
(***************************************************************************)
\* xs[i] with 0 past the end (0-based i)
safe_get(xs, i) == IF i < Len(xs) THEN xs[i + 1] ELSE 0

\* byte & 0xC0 == 0x80
is_cont(byte) == byte >= 128 /\ byte <= 191

utf8_char_width(byte) ==
    IF byte < 128 THEN 1
    ELSE IF byte >= 194 /\ byte <= 223 THEN 2
    ELSE IF byte >= 224 /\ byte <= 239 THEN 3
    ELSE IF byte >= 240 /\ byte <= 244 THEN 4
    ELSE 0

\* the second byte a three-byte lead accepts
second_of_3(byte, nxt) ==
    \/ byte = 224 /\ nxt >= 160 /\ nxt <= 191
    \/ byte >= 225 /\ byte <= 236 /\ nxt >= 128 /\ nxt <= 191
    \/ byte = 237 /\ nxt >= 128 /\ nxt <= 159
    \/ byte >= 238 /\ byte <= 239 /\ nxt >= 128 /\ nxt <= 191

\* the second byte a four-byte lead accepts
second_of_4(byte, nxt) ==
    \/ byte = 240 /\ nxt >= 144 /\ nxt <= 191
    \/ byte >= 241 /\ byte <= 243 /\ nxt >= 128 /\ nxt <= 191
    \/ byte = 244 /\ nxt >= 128 /\ nxt <= 143

\* The scanning loop of Utf8Chunks::next: i is the number of bytes inspected,
\* valid_up_to the length of the valid prefix.  The result is the pair at the
\* loop's exit.
RECURSIVE scan(_, _, _)
scan(source, i, valid_up_to) ==
    IF i >= Len(source) THEN [i |-> i, valid_up_to |-> valid_up_to]
    ELSE
      LET byte == source[i + 1]
          i1 == i + 1
          w == utf8_char_width(byte)
          stop(j) == [i |-> j, valid_up_to |-> valid_up_to]
      IN
        IF byte < 128 THEN scan(source, i1, i1)
        ELSE IF w = 2 THEN
            IF ~is_cont(safe_get(source, i1)) THEN stop(i1)
            ELSE scan(source, i1 + 1, i1 + 1)
        ELSE IF w = 3 THEN
            IF ~second_of_3(byte, safe_get(source, i1)) THEN stop(i1)
            ELSE IF ~is_cont(safe_get(source, i1 + 1)) THEN stop(i1 + 1)
            ELSE scan(source, i1 + 2, i1 + 2)
        ELSE IF w = 4 THEN
            IF ~second_of_4(byte, safe_get(source, i1)) THEN stop(i1)
            ELSE IF ~is_cont(safe_get(source, i1 + 1)) THEN stop(i1 + 1)
            ELSE IF ~is_cont(safe_get(source, i1 + 2)) THEN stop(i1 + 2)
            ELSE scan(source, i1 + 3, i1 + 3)
        ELSE stop(i1)

\* a variant of split_chunk that hands the whole inspected range out as text
split_chunk_all_valid(source, at) ==
    [valid |-> SubSeq(source, 1, at.i),
     invalid |-> <<>>,
     rest |-> SubSeq(source, at.i + 1, Len(source))]

\* the end of Utf8Chunks::next: split the inspected bytes off the source, and
\* the inspected bytes into the valid text and the invalid sequence
split_chunk(source, at) ==
    [valid |-> SubSeq(source, 1, at.valid_up_to),
     invalid |-> SubSeq(source, at.valid_up_to + 1, at.i),
     rest |-> SubSeq(source, at.i + 1, Len(source))]

\* all chunks of a slice, in order: the items of Utf8Chunks / CasedChunks
RECURSIVE cased_chunks(_)
cased_chunks(bytes) ==
    IF bytes = <<>> THEN <<>>
    ELSE LET ch == split_chunk(bytes, scan(bytes, 0, 0))
         IN  <<[valid |-> ch.valid, invalid |-> ch.invalid]>> \o cased_chunks(ch.rest)

(***************************************************************************)
(* str::chars and char::encode_utf8.                                       *)
(***************************************************************************)
\* the chars of valid text
RECURSIVE chars(_)
chars(text) ==
    IF text = <<>> THEN <<>>
    ELSE
      LET x == text[1]
          w == utf8_char_width(x)
          y == safe_get(text, 1) % 64
          z == safe_get(text, 2) % 64
          u == safe_get(text, 3) % 64
          ch == IF w = 1 THEN x
                ELSE IF w = 2 THEN (x % 32) * 64 + y
                ELSE IF w = 3 THEN (x % 16) * 4096 + y * 64 + z
                ELSE (x % 8) * 262144 + y * 4096 + z * 64 + u
          \* text is valid UTF-8, so w is never 0
          step == IF w = 0 THEN 1 ELSE w
      IN  <<ch>> \o chars(SubSeq(text, step + 1, Len(text)))

encode_utf8(ch) ==
    IF ch < 128 THEN <<ch>>
    ELSE IF ch < 2048 THEN <<192 + (ch \div 64), 128 + (ch % 64)>>
    ELSE IF ch < 65536 THEN
        <<224 + (ch \div 4096), 128 + ((ch \div 64) % 64), 128 + (ch % 64)>>
    ELSE <<240 + (ch \div 262144), 128 + ((ch \div 4096) % 64),
           128 + ((ch \div 64) % 64), 128 + (ch % 64)>>

(***************************************************************************)
(* char::to_uppercase and char::to_lowercase (the full, unconditional      *)
(* Unicode mappings) on the chars the inputs reach: Basic Latin, U+00C0 to  *)
(* U+00FE, U+011E, U+011F, U+0130, U+0131, and U+0307 and the uncased      *)
(* chars, which map to themselves.                                         *)
(***************************************************************************)
to_uppercase(ch) ==
    IF ch >= 97 /\ ch <= 122 THEN <<ch - 32>>
    ELSE IF ch = 223 THEN <<83, 83>>
    ELSE IF ch >= 224 /\ ch <= 254 /\ ch # 247 THEN <<ch - 32>>
    ELSE IF ch = 287 THEN <<286>>
    ELSE IF ch = 305 THEN <<73>>
    ELSE <<ch>>

to_lowercase(ch) ==
    IF ch >= 65 /\ ch <= 90 THEN <<ch + 32>>
    ELSE IF ch >= 192 /\ ch <= 222 /\ ch # 215 THEN <<ch + 32>>
    ELSE IF ch = 286 THEN <<287>>
    ELSE IF ch = 304 THEN <<105, 775>>
    ELSE <<ch>>

\* the two CaseMap implementors
CharsUppercaseMap == "upper"
CharsLowercaseMap == "lower"

case_map(M, ch) == IF M = CharsUppercaseMap THEN to_uppercase(ch) ELSE to_lowercase(ch)

RECURSIVE flatten(_)
flatten(ss) == IF ss = <<>> THEN <<>> ELSE ss[1] \o flatten(Tail(ss))

\* CasedChunk::valid: the chars of the valid part, each mapped, flattened
valid(M, chunk) ==
    LET cs == chars(chunk.valid)
    IN  flatten([k \in 1..Len(cs) |-> case_map(M, cs[k])])

\* CasedChunk::invalid
invalid(chunk) == chunk.invalid

(***************************************************************************)
(* Eq, Ord and Hash of CasedChunk and of Insensitive.                      *)
(***************************************************************************)
Less == "Less"
Equal == "Equal"
Greater == "Greater"

\* Iterator::cmp of two char iterators, and Ord of two byte slices: both are
\* the lexicographic order of the items
RECURSIVE seq_cmp(_, _)
seq_cmp(xs, ys) ==
    IF xs = <<>> THEN (IF ys = <<>> THEN Equal ELSE Less)
    ELSE IF ys = <<>> THEN Greater
    ELSE IF xs[1] < ys[1] THEN Less
    ELSE IF xs[1] > ys[1] THEN Greater
    ELSE seq_cmp(Tail(xs), Tail(ys))

\* a chunk equality that folds the right operand with the other case map
chunk_eq_mixed(M, x, y) ==
    valid(CharsUppercaseMap, x) = valid(CharsLowercaseMap, y) /\ invalid(x) = invalid(y)

\* a chunk equality that looks at the valid parts only
chunk_eq_valid_only(M, x, y) == valid(M, x) = valid(M, y)

\* PartialEq for CasedChunk
chunk_eq(M, x, y) == valid(M, x) = valid(M, y) /\ invalid(x) = invalid(y)

\* a chunk order without the tie break on the invalid bytes
chunk_cmp_valid_only(M, x, y) == seq_cmp(valid(M, x), valid(M, y))

\* Ord for CasedChunk
chunk_cmp(M, x, y) ==
    LET first == seq_cmp(valid(M, x), valid(M, y))
    IN  IF first # Equal THEN first ELSE seq_cmp(invalid(x), invalid(y))

\* a chunk hash of the unmapped chars
chunk_hash_unmapped(M, x) ==
    LET cs == chars(x.valid)
    IN  [k \in 1..Len(cs) |-> <<"write_u32", <<cs[k]>>>>] \o <<<<"write", invalid(x)>>>>

\* Hash for CasedChunk: the writes the hasher receives
chunk_hash(M, x) ==
    LET cs == valid(M, x)
    IN  [k \in 1..Len(cs) |-> <<"write_u32", <<cs[k]>>>>] \o <<<<"write", invalid(x)>>>>

\* Iterator::eq of two chunk iterators
RECURSIVE iter_eq(_, _, _)
iter_eq(M, xs, ys) ==
    IF xs = <<>> THEN ys = <<>>
    ELSE IF ys = <<>> THEN FALSE
    ELSE IF ~chunk_eq(M, xs[1], ys[1]) THEN FALSE
    ELSE iter_eq(M, Tail(xs), Tail(ys))

\* Iterator::cmp of two chunk iterators
RECURSIVE iter_cmp(_, _, _)
iter_cmp(M, xs, ys) ==
    IF xs = <<>> THEN (IF ys = <<>> THEN Equal ELSE Less)
    ELSE IF ys = <<>> THEN Greater
    ELSE LET o == chunk_cmp(M, xs[1], ys[1])
         IN  IF o # Equal THEN o ELSE iter_cmp(M, Tail(xs), Tail(ys))

upper_chunks(bytes) == cased_chunks(bytes)
lower_chunks(bytes) == cased_chunks(bytes)

\* PartialEq for Insensitive: both operands as CharsUppercaseMap chunks
eq(x, y) == iter_eq(CharsUppercaseMap, upper_chunks(x), cased_chunks(y))

\* Ord for Insensitive
cmp(x, y) == iter_cmp(CharsUppercaseMap, upper_chunks(x), cased_chunks(y))

\* Hash for Insensitive: the writes of every chunk, in order
hash(x) ==
    LET cs == upper_chunks(x)
    IN  flatten([k \in 1..Len(cs) |-> chunk_hash(CharsUppercaseMap, cs[k])])

(***************************************************************************)
(* Insensitive::encode and the encode module.                              *)
(***************************************************************************)
\* what one chunk appends to the buffer, without its invalid bytes
encode_chunk_valid_only(M, chunk) ==
    LET cs == valid(M, chunk)
    IN  flatten([k \in 1..Len(cs) |-> encode_utf8(cs[k])])

\* the body of the loop of Insensitive::encode: what one chunk appends
encode_chunk(M, chunk) ==
    LET cs == valid(M, chunk)
    IN  flatten([k \in 1..Len(cs) |-> encode_utf8(cs[k])]) \o invalid(chunk)

\* Insensitive::encode: the buffer after the call
encode(M, bytes, vec) ==
    LET cs == cased_chunks(bytes)
    IN  vec \o flatten([k \in 1..Len(cs) |-> encode_chunk(M, cs[k])])

encode_upper(bytes, vec) == encode(CharsUppercaseMap, bytes, vec)
encode_lower(bytes, vec) == encode(CharsLowercaseMap, bytes, vec)

to_lower(bytes) == encode_lower(bytes, <<>>)

\* to_upper calling the other encoder
to_upper_as_lower(bytes) == encode_lower(bytes, <<>>)

to_upper(bytes) == encode_upper(bytes, <<>>)

(***************************************************************************)
(* Display for InsensitiveDisplay: the chars written to the formatter.     *)
(***************************************************************************)
\* the digits of "{:X}"
upper_hex_digit(d) == IF d < 10 THEN 48 + d ELSE 55 + d

\* the digits of "{:x}"
lower_hex_digit(d) == IF d < 10 THEN 48 + d ELSE 87 + d

\* "{:x}" of a u8: the digits without padding
RECURSIVE fmt_x(_)
fmt_x(n) ==
    IF n < 16 THEN <<lower_hex_digit(n)>>
    ELSE fmt_x(n \div 16) \o <<lower_hex_digit(n % 16)>>

\* write!(f, "\\x'{:x}'", c): backslash, x, quote, digits, quote
fmt_invalid(byte) == <<92, 120, 39>> \o fmt_x(byte) \o <<39>>

\* the loop body of fmt: the text of the chunk, then a token for each invalid byte
fmt_chunk(chunk) ==
    chars(chunk.valid)
        \o flatten([k \in 1..Len(chunk.invalid) |-> fmt_invalid(chunk.invalid[k])])

fmt(bytes) ==
    LET cs == cased_chunks(bytes)
    IN  flatten([k \in 1..Len(cs) |-> fmt_chunk(cs[k])])

(***************************************************************************)
(* InsensitiveBuf.                                                         *)
(***************************************************************************)
\* InsensitiveBuf::new
new(s) == s

as_insensitive(v) == v

\* slice[start..end].reverse() on a vector (0-based, end exclusive)
reverse_range(v, start, end) ==
    [k \in 1..Len(v) |-> IF k > start /\ k <= end THEN v[start + end + 1 - k] ELSE v[k]]

extend_from_slice(v, s) == v \o s

\* a reversal that starts at the front of the vector
extend_from_slice_reversed_all(v, s) ==
    LET ext == v \o s
    IN  reverse_range(ext, 0, Len(ext))

extend_from_slice_reversed(v, s) ==
    LET start == Len(v)
        ext == v \o s
        end == Len(ext)
    IN  reverse_range(ext, start, end)

\* PartialEq for InsensitiveBuf
buf_eq(x, y) == eq(as_insensitive(x), as_insensitive(y))

(***************************************************************************)
(* Spec: an InsensitiveBuf under new and the two extend calls.  calls is   *)
(* the history of the calls made.                                          *)
(***************************************************************************)
Init ==
    /\ pc = "buf"
    /\ \E s0 \in BufInputs :
        /\ buf = new(s0)
        /\ calls = <<[op |-> "new", s |-> s0]>>
    /\ a = <<>> /\ b = <<>> /\ c = <<>> /\ r = <<>>

ExtendFromSlice ==
    /\ pc = "buf"
    /\ Len(calls) <= MaxCalls
    /\ \E s \in BufInputs :
        /\ buf' = extend_from_slice(buf, s)
        /\ calls' = Append(calls, [op |-> "extend_from_slice", s |-> s])
    /\ UNCHANGED <<pc, a, b, c, r>>

ExtendFromSliceReversed ==
    /\ pc = "buf"
    /\ Len(calls) <= MaxCalls
    /\ \E s \in BufInputs :
        /\ buf' = extend_from_slice_reversed(buf, s)
        /\ calls' = Append(calls, [op |-> "extend_from_slice_reversed", s |-> s])
    /\ UNCHANGED <<pc, a, b, c, r>>

Next == ExtendFromSlice \/ ExtendFromSliceReversed

Spec == Init /\ [][Next]_vars

(***************************************************************************)
(* SpecRel: eq and cmp applied to three operands.                          *)
(***************************************************************************)
InitRel ==
    /\ pc = "start"
    /\ a \in RelInputs /\ b \in RelInputs /\ c \in RelInputs
    /\ r = <<>> /\ buf = <<>> /\ calls = <<>>

CompareEq ==
    /\ pc = "start"
    /\ pc' = "eq"
    /\ r' = [aa |-> eq(a, a), ab |-> eq(a, b), ba |-> eq(b, a),
             bc |-> eq(b, c), ac |-> eq(a, c)]
    /\ UNCHANGED <<a, b, c, buf, calls>>

CompareOrd ==
    /\ pc = "start"
    /\ pc' = "cmp"
    /\ r' = [ab |-> cmp(a, b), ba |-> cmp(b, a), bc |-> cmp(b, c),
             ac |-> cmp(a, c), eq_ab |-> eq(a, b)]
    /\ UNCHANGED <<a, b, c, buf, calls>>

NextRel == CompareEq \/ CompareOrd

SpecRel == InitRel /\ [][NextRel]_vars

(***************************************************************************)
(* SpecPair: hash and to_upper applied to two operands, next to eq.        *)
(***************************************************************************)
InitPair ==
    /\ pc = "start"
    /\ a \in PairInputs /\ b \in PairInputs
    /\ c = <<>> /\ r = <<>> /\ buf = <<>> /\ calls = <<>>

HashBoth ==
    /\ pc = "start"
    /\ pc' = "hash"
    /\ r' = [ha |-> hash(a), hb |-> hash(b), eq |-> eq(a, b)]
    /\ UNCHANGED <<a, b, c, buf, calls>>

UpperBoth ==
    /\ pc = "start"
    /\ pc' = "upper"
    /\ r' = [ua |-> to_upper(a), ub |-> to_upper(b), eq |-> eq(a, b),
             buf_eq |-> buf_eq(new(a), new(b))]
    /\ UNCHANGED <<a, b, c, buf, calls>>

NextPair == HashBoth \/ UpperBoth

SpecPair == InitPair /\ [][NextPair]_vars

(***************************************************************************)
(* SpecOne: the one-operand operations.                                    *)
(***************************************************************************)
InitOne ==
    /\ pc = "start"
    /\ a \in OneInputs
    /\ b = <<>> /\ c = <<>> /\ r = <<>> /\ buf = <<>> /\ calls = <<>>

ToUpper ==
    /\ pc = "start"
    /\ pc' = "to_upper"
    /\ LET out == to_upper(a)
       IN  r' = [out |-> out, eq |-> eq(a, out)]
    /\ UNCHANGED <<a, b, c, buf, calls>>

ToLower ==
    /\ pc = "start"
    /\ pc' = "to_lower"
    /\ LET out == to_lower(a)
       IN  r' = [out |-> out, eq |-> eq(a, out)]
    /\ UNCHANGED <<a, b, c, buf, calls>>

Chunks ==
    /\ pc = "start"
    /\ pc' = "chunks"
    /\ r' = [chunks |-> cased_chunks(a)]
    /\ UNCHANGED <<a, b, c, buf, calls>>

Display ==
    /\ pc = "start"
    /\ pc' = "display"
    /\ r' = [out |-> fmt(a)]
    /\ UNCHANGED <<a, b, c, buf, calls>>

NextOne == ToUpper \/ ToLower \/ Chunks \/ Display

SpecOne == InitOne /\ [][NextOne]_vars

(***************************************************************************)
(* Properties.                                                             *)
(***************************************************************************)
Range(s) == {s[k] : k \in 1..Len(s)}

\* a slice that is valid UTF-8 as a whole: no chunk has invalid bytes
IsValidUtf8(bytes) ==
    LET cs == cased_chunks(bytes)
    IN  \A k \in 1..Len(cs) : cs[k].invalid = <<>>

HasInvalid(bytes) == ~IsValidUtf8(bytes)

\* C1: insensitive equality is reflexive, symmetric and transitive over all
\* byte sequences, valid, invalid or mixed.
EqIsEquivalence ==
    pc = "eq" =>
        /\ r.aa
        /\ r.ab = r.ba
        /\ (r.ab /\ r.bc) => r.ac

\* C1 witness: three operands mixing an invalid byte with text, equal under the
\* relation although a differs from b and b from c.
EqIsEquivalenceWitness ==
    /\ pc = "eq"
    /\ r.ab /\ r.bc /\ r.ac
    /\ a # b /\ b # c
    /\ HasInvalid(a) /\ ~(a \in Seq({195}))

\* C5: cmp is Equal exactly when eq holds, cmp(a,b) is the reverse of cmp(b,a),
\* and cmp is transitive, also for invalid bytes at different offsets.
Reverse(o) == IF o = Less THEN Greater ELSE IF o = Greater THEN Less ELSE Equal

CmpIsTotalOrder ==
    pc = "cmp" =>
        /\ (r.ab = Equal) <=> r.eq_ab
        /\ r.ab = Reverse(r.ba)
        /\ (r.ab # Greater /\ r.bc # Greater) => r.ac # Greater

\* C5 witness: a < b < c where a has its invalid byte at offset 0 and b at
\* offset 1.
CmpIsTotalOrderWitness ==
    /\ pc = "cmp"
    /\ Len(a) = 2 /\ a[1] = 195 /\ a[2] # 195
    /\ Len(b) = 2 /\ b[1] # 195 /\ b[2] = 195
    /\ r.ab = Less /\ r.bc = Less /\ r.ac = Less

\* C2: equal operands feed the hasher the same sequence of writes.
HashConsistent ==
    pc = "hash" => (r.eq => r.ha = r.hb)

\* C2 witness: two different byte sequences that are equal, one spelling
\* U+00DF and the other not, with an invalid byte written raw.
HashConsistentWitness ==
    /\ pc = "hash"
    /\ r.eq /\ a # b
    /\ Len(a) >= 2 /\ SubSeq(a, 1, 2) = <<195, 159>>
    /\ \E k \in 1..Len(r.ha) : r.ha[k][1] = "write" /\ r.ha[k][2] # <<>>
    /\ \E k \in 1..Len(r.ha) : r.ha[k][1] = "write_u32"

\* C9: eq(a,b), and equality of the two InsensitiveBuf, hold exactly when
\* to_upper(a) and to_upper(b) are the same bytes.
EqAgreesWithToUpper ==
    pc = "upper" =>
        /\ r.eq <=> (r.ua = r.ub)
        /\ r.buf_eq <=> (r.ua = r.ub)

\* C9 witness: two different mixed inputs with the same uppercase output.
EqAgreesWithToUpperWitness ==
    /\ pc = "upper"
    /\ a # b /\ r.eq /\ r.ua = r.ub
    /\ HasInvalid(a) /\ r.ua # a

\* C3: a valid UTF-8 sequence equals its to_lower form.
EqToLower ==
    (pc = "to_lower" /\ IsValidUtf8(a)) => r.eq

\* C4: a valid UTF-8 sequence equals its to_upper form.
EqToUpper ==
    (pc = "to_upper" /\ IsValidUtf8(a)) => r.eq

\* C4 witness: valid text whose uppercase form has more chars than the text
\* (U+00DF becomes two chars), and is equal to it.
EqToUpperWitness ==
    /\ pc = "to_upper"
    /\ IsValidUtf8(a) /\ a # <<>>
    /\ Len(chars(r.out)) > Len(chars(a))
    /\ r.eq

\* the invalid part of every chunk, by position in the chunk stream
invalid_runs(bytes) ==
    LET cs == cased_chunks(bytes)
    IN  [k \in 1..Len(cs) |-> cs[k].invalid]

\* C6: to_upper and to_lower leave the invalid runs unchanged: the output
\* decomposes into as many chunks as the input, with the same invalid bytes in
\* each.
InvalidPassThrough ==
    pc \in {"to_upper", "to_lower"} => invalid_runs(r.out) = invalid_runs(a)

\* C6 witness: to_lower changed the text between two invalid runs.
InvalidPassThroughWitness ==
    /\ pc = "to_lower"
    /\ LET cs == cased_chunks(a)
           out == cased_chunks(r.out)
       IN  /\ Len(cs) = 2
           /\ cs[1].invalid # <<>> /\ cs[2].invalid # <<>>
           /\ cs[2].valid # <<>> /\ out[2].valid # cs[2].valid

\* the chunk stream as segments: the non-empty valid and invalid parts in order
RECURSIVE segments(_)
segments(cs) ==
    IF cs = <<>> THEN <<>>
    ELSE (IF cs[1].valid = <<>> THEN <<>> ELSE <<[class |-> "Valid", bytes |-> cs[1].valid]>>)
         \o (IF cs[1].invalid = <<>> THEN <<>>
             ELSE <<[class |-> "Invalid", bytes |-> cs[1].invalid]>>)
         \o segments(Tail(cs))

Covers(cs, bytes) ==
    flatten([k \in 1..Len(cs) |-> cs[k].valid \o cs[k].invalid]) = bytes

\* C7 as stated: the stream covers the slice in order and no two adjacent
\* segments have the same classification.
SegmentsAlternate ==
    pc = "chunks" =>
        LET segs == segments(r.chunks)
        IN  /\ Covers(r.chunks, a)
            /\ \A k \in 1..(Len(segs) - 1) : segs[k].class # segs[k + 1].class

\* C7 as amended: the stream covers the slice exactly once in order; no chunk
\* is empty; every chunk is a run of well-formed text (possibly empty) followed
\* by an invalid sequence of at most three bytes, all of them non-ASCII, which
\* is empty in the last chunk at most.  Valid runs are never adjacent, but a
\* run of undecodable bytes may be delivered as several Invalid segments.
ChunkStreamShape ==
    pc = "chunks" =>
        LET cs == r.chunks
            segs == segments(cs)
        IN  /\ Covers(cs, a)
            /\ \A k \in 1..Len(cs) : cs[k].valid \o cs[k].invalid # <<>>
            /\ \A k \in 1..Len(cs) : Len(cs[k].invalid) <= 3
            /\ \A k \in 1..(Len(cs) - 1) : cs[k].invalid # <<>>
            /\ \A k \in 1..Len(cs) : \A x \in Range(cs[k].invalid) : x >= 128
            /\ \A k \in 1..(Len(segs) - 1) :
                   ~(segs[k].class = "Valid" /\ segs[k + 1].class = "Valid")
            /\ \A k \in 1..Len(cs) :
                   LET ch == chars(cs[k].valid)
                   IN  flatten([j \in 1..Len(ch) |-> encode_utf8(ch[j])]) = cs[k].valid

\* C7 witness: a chunk after the first with no valid text, so that two Invalid
\* segments are adjacent.
ChunkStreamShapeWitness ==
    /\ pc = "chunks"
    /\ \E k \in 2..Len(r.chunks) :
           r.chunks[k].valid = <<>> /\ r.chunks[k].invalid # <<>>

\* the sixteen lowercase hexadecimal digits
HexDigits == <<48, 49, 50, 51, 52, 53, 54, 55, 56, 57, 97, 98, 99, 100, 101, 102>>

\* \x'<hex>' with exactly two digits
Token(byte) == <<92, 120, 39, HexDigits[(byte \div 16) + 1], HexDigits[(byte % 16) + 1], 39>>

\* C8: display writes every valid run as its unmapped text and every invalid
\* byte as \x'<hex>' with two lowercase hexadecimal digits, in input order.
DisplayLossless ==
    pc = "display" =>
        LET cs == cased_chunks(a)
        IN  r.out = flatten([k \in 1..Len(cs) |->
                        chars(cs[k].valid)
                            \o flatten([j \in 1..Len(cs[k].invalid) |->
                                           Token(cs[k].invalid[j])])])

\* C8 witness: 0xFE between an uppercase and a lowercase letter, both of which
\* are written as they are.
DisplayLosslessWitness ==
    /\ pc = "display"
    /\ a = <<83, 254, 115>>
    /\ r.out = <<83, 92, 120, 39, 102, 101, 39, 115>>

\* the bytes of a slice in reverse order
Reversed(s) == [k \in 1..Len(s) |-> s[Len(s) + 1 - k]]

\* what the history of calls says the buffer holds
Expected(h) ==
    flatten([k \in 1..Len(h) |->
                IF h[k].op = "extend_from_slice_reversed" THEN Reversed(h[k].s) ELSE h[k].s])

\* C10: the buffer holds the constructor's bytes followed by every argument in
\* call order, reversed for extend_from_slice_reversed, and no call changes the
\* bytes stored before it.
BufHoldsCalls ==
    /\ [](pc = "buf" => buf = Expected(calls))
    /\ [][Len(buf') >= Len(buf) /\ SubSeq(buf', 1, Len(buf)) = buf]_vars

\* C10 witness: a non-empty buffer extended by a reversed slice of two
\* different bytes and then by a plain slice.
BufHoldsCallsWitness ==
    /\ pc = "buf"
    /\ Len(calls) = 3
    /\ calls[1].s # <<>>
    /\ calls[2].op = "extend_from_slice_reversed" /\ calls[2].s = <<97, 254>>
    /\ calls[3].op = "extend_from_slice" /\ calls[3].s # <<>>
====
